---- MODULE Spec2Model ----
(***************************************************************************)
(* ComputeHive Python SDK (sdk/python/computehive/client.py).              *)
(*                                                                         *)
(* One caller drives one client: construction from arguments and the two   *)
(* environment variables, the transport (_make_request over a requests     *)
(* Session whose adapter carries urllib3's Retry), the job operations,     *)
(* the wait_for_job polling loop and the quick_run_docker helper.  The     *)
(* server is the environment: every attempt gets an arbitrary response or  *)
(* a transport error.  Time is a discrete clock, read by wait_for_job at    *)
(* the top of its loop only; the time a probe and its callback take is     *)
(* added when the probe returns, the time of a sleep when it is made.      *)
(* Redirect (3xx) responses are not in the response alphabet.              *)
(*                                                                         *)
(* Spec follows that one caller.  SpecBuild follows one call of a          *)
(* request-building operation (the query maps and the job submission       *)
(* body) from its arguments to the request handed to _make_request.        *)
(* SpecConc follows two callers in wait_for_job on one shared client.      *)
(***************************************************************************)
EXTENDS Integers, Sequences, FiniteSets, TLC

VARIABLES
    env,        \* os.environ: the two variables the SDK reads
    client,     \* the ComputeHiveClient instance in use (NoClient: none)
    ctor,       \* what the last construction was given and how it ended
    op,         \* the operation the caller is in
    pc,         \* the caller's position in it
    req,        \* the logical request inside session.request (Retry state)
    done,       \* the exchange that ended the last operation
    wait,       \* locals of wait_for_job
    nprobes,    \* get_job probes of this wait that returned a record
    ncallbacks, \* callback invocations of this wait
    last_cb,    \* the record the last callback invocation was given
    sleeps,     \* time.sleep calls of this wait
    reqlog,     \* logical requests of the current operation, in order
    sent,       \* headers and base URL of the last attempt put on the wire
    outcome,    \* what the last operation returned or raised
    clock,      \* time.time(), counted from the start of the wait
    call,       \* one call of a request-building operation: its arguments
                \* and the request it hands to _make_request
    threads     \* the callers that share one client, each with the locals
                \* of its wait_for_job call

vars == <<env, client, ctor, op, pc, req, done, wait, nprobes, ncallbacks,
          last_cb, sleeps, reqlog, sent, outcome, clock, call, threads>>

-----------------------------------------------------------------------------
(* Bounds of the model *)

MaxRetriesArg == 1      \* constructor argument max_retries ranges over 0..MaxRetriesArg
MaxProbes == 2          \* get_job probes one wait_for_job call may make
MaxTimeout == 1         \* wait_for_job timeout argument ranges over 0..MaxTimeout
MaxPollInterval == 1    \* wait_for_job poll_interval ranges over 0..MaxPollInterval
MaxProbeTime == 2       \* clock ticks a slow probe takes: the get_job call with
                        \* its attempts and backoff sleeps, and the callback

-----------------------------------------------------------------------------
(* Values *)

NoValue == "<None>"     \* Python None / an unset environment variable

KeyArgs == {NoValue, "", "k1"}
EnvKeys == {NoValue, "", "k2"}
UrlArgs == {NoValue, "u1"}
EnvUrls == {NoValue, "u2"}
JobIds == {"j1", "j2"}       \* ids the server gives to submitted jobs
WaitIds == {"j1"}            \* ids the caller waits for

DefaultApiUrl == "https://api.computehive.io"
DefaultMaxRetries == 3
DefaultRequestTimeout == 30
DefaultWaitTimeout == 3600
DefaultPollInterval == 5
DefaultJobTimeout == 3600
UserAgent == "ComputeHive-Python-SDK/1.0.0"

\* JobStatus values, plus one value outside the enumeration and a missing key
JobStatus == {"pending", "scheduled", "running", "completed", "failed", "cancelled"}
ServerStatuses == {"running", "completed", "failed", "cancelled", "paused", NoValue}
TerminalStatuses == {"completed", "failed", "cancelled"}

\* Retry(total=max_retries, backoff_factor=1, status_forcelist=[...])
status_forcelist == {429, 500, 502, 503, 504}
\* urllib3 defaults the client leaves in place
DEFAULT_ALLOWED_METHODS == {"HEAD", "GET", "PUT", "DELETE", "OPTIONS", "TRACE"}
RETRY_AFTER_STATUS_CODES == {413, 429, 503}
respect_retry_after_header == TRUE
raise_on_status == TRUE

HttpStatuses == {200, 204, 400, 401, 404, 413, 429, 500, 503}
TransportErrors == {"connect_error", "read_error"}

\* What the server (or the network) answers to one attempt
\* (a Retry-After header on the statuses urllib3 looks for it on, a body
\* that is or is not a JSON document on the 2xx ones)
Responses ==
    {r \in [error : {"none"}, status : HttpStatuses, retry_after : BOOLEAN,
            json : BOOLEAN] :
        /\ r.retry_after => r.status \in {413, 429, 503}
        /\ r.json => r.status = 200}
Failures ==
    [error : TransportErrors, status : {0}, retry_after : {FALSE}, json : {FALSE}]

-----------------------------------------------------------------------------
(* Python helpers *)

Truthy(x) == x \notin {NoValue, ""}

PyOr(a, b) == IF Truthy(a) THEN a ELSE b

GetEnv(e, name, default) == IF e[name] = NoValue THEN default ELSE e[name]

Last(s) == s[Len(s)]

-----------------------------------------------------------------------------
(* Errors and values *)

Err(cls, msg) == [cls |-> cls, msg |-> msg]

AuthenticationError == Err("AuthenticationError", "Invalid API key or authentication failed")
MissingKeyError == Err("AuthenticationError", "API key is required")
BadRequestError == Err("ComputeHiveError", "Bad request")
ApiRequestFailed == Err("ComputeHiveError", "API request failed")
NetworkError == Err("ComputeHiveError", "Network error")
JobTimeoutError == Err("JobError", "did not complete within timeout")
JobFailedError == Err("JobError", "Job failed with status")
CallbackRaised == Err("CallbackException", "raised by callback")
NoErr == Err(NoValue, NoValue)

\* A decoded response body / a return value
Value(tag, id, status, n) == [tag |-> tag, id |-> id, status |-> status, n |-> n]
NoVal == Value(NoValue, NoValue, NoValue, 0)

Returned(v) == [kind |-> "return", val |-> v, err |-> NoErr, text |-> NoValue]
Raised(e, text) == [kind |-> "raise", val |-> NoVal, err |-> e, text |-> text]
NoOutcome == [kind |-> "none", val |-> NoVal, err |-> NoErr, text |-> NoValue]

-----------------------------------------------------------------------------
(* ComputeHiveClient.__init__ *)

NoClient ==
    [exists |-> FALSE, api_url |-> NoValue, api_key |-> NoValue,
     max_retries |-> 0, timeout |-> 0,
     headers |-> [Authorization |-> <<"Bearer", NoValue>>,
                  ContentType |-> NoValue, UserAgent |-> NoValue]]

ResolveUrl(e, api_url) == PyOr(api_url, GetEnv(e, "COMPUTEHIVE_API_URL", DefaultApiUrl))

\* a constructor that takes the key from its argument only
ResolveKey_ArgOnly(e, api_key) == api_key

ResolveKey(e, api_key) == PyOr(api_key, GetEnv(e, "COMPUTEHIVE_API_KEY", NoValue))

NewClient(e, api_url, api_key, timeout, max_retries) ==
    IF ~Truthy(ResolveKey(e, api_key))
    THEN NoClient
    ELSE [exists |-> TRUE,
          api_url |-> ResolveUrl(e, api_url),
          api_key |-> ResolveKey(e, api_key),
          max_retries |-> max_retries,
          timeout |-> timeout,
          headers |-> [Authorization |-> <<"Bearer", ResolveKey(e, api_key)>>,
                       ContentType |-> "application/json",
                       UserAgent |-> UserAgent]]

\* The constructor call as its caller sees it: was a key absent from both
\* the argument and the environment, was a non-empty one provided by either,
\* and the key and base URL in force when it ran
CtorRecord(e, api_url, api_key, c) ==
    [called |-> TRUE,
     absent |-> api_key = NoValue /\ e["COMPUTEHIVE_API_KEY"] = NoValue,
     provided |-> Truthy(api_key) \/ Truthy(e["COMPUTEHIVE_API_KEY"]),
     key |-> IF Truthy(api_key) THEN api_key ELSE e["COMPUTEHIVE_API_KEY"],
     url |-> IF Truthy(api_url) THEN api_url
             ELSE IF e["COMPUTEHIVE_API_URL"] = NoValue THEN DefaultApiUrl
             ELSE e["COMPUTEHIVE_API_URL"],
     result |-> IF c.exists THEN NoErr ELSE MissingKeyError]

NoCtor ==
    [called |-> FALSE, absent |-> FALSE, provided |-> FALSE, key |-> NoValue,
     url |-> NoValue, result |-> NoErr]

-----------------------------------------------------------------------------
(* urllib3 Retry, as configured in __init__, and HTTPAdapter.send *)

NoReq ==
    [active |-> FALSE, kind |-> NoValue, method |-> NoValue, id |-> NoValue,
     total |-> 0, attempts |-> 0, all_transient |-> TRUE, last |-> "none"]

NewReq(c, kind, method, id) ==
    [active |-> TRUE, kind |-> kind, method |-> method, id |-> id,
     total |-> c.max_retries, attempts |-> 0, all_transient |-> TRUE, last |-> "none"]

\* Retry._is_method_retryable
IsMethodRetryable(method) == method \in DEFAULT_ALLOWED_METHODS

\* Retry.is_retry(method, status_code, has_retry_after)
is_retry(method, total, status_code, has_retry_after) ==
    IF ~IsMethodRetryable(method) THEN FALSE
    ELSE IF status_code \in status_forcelist THEN TRUE
    ELSE /\ total # 0
         /\ respect_retry_after_header
         /\ has_retry_after
         /\ status_code \in RETRY_AFTER_STATUS_CODES

\* Retry.is_exhausted, after Retry.increment took one off total
is_exhausted(total) == total < 0

\* One pass of HTTPConnectionPool.urlopen over the answer r to an attempt,
\* followed by HTTPAdapter.send's mapping of urllib3 exceptions:
\*   "retry"    - sleep the backoff and send the request again
\*   "response" - hand the response to the session
\*   "raise"    - a requests exception (exc) leaves session.request
urlopen(method, total, r) ==
    IF r.error \in TransportErrors
    THEN IF r.error = "read_error" /\ ~IsMethodRetryable(method)
         THEN [act |-> "raise", exc |-> "ConnectionError"]
         ELSE IF is_exhausted(total - 1)
              THEN [act |-> "raise", exc |-> "ConnectionError"]
              ELSE [act |-> "retry", exc |-> NoValue]
    ELSE IF is_retry(method, total, r.status, r.retry_after)
         THEN IF is_exhausted(total - 1)
              THEN IF raise_on_status
                   THEN [act |-> "raise", exc |-> "RetryError"]
                   ELSE [act |-> "response", exc |-> NoValue]
              ELSE [act |-> "retry", exc |-> NoValue]
         ELSE [act |-> "response", exc |-> NoValue]

\* Response.raise_for_status
RaisesHTTPError(status) == status >= 400 /\ status < 600

-----------------------------------------------------------------------------
(* ComputeHiveClient._make_request *)

\* The except clauses of _make_request, for a response the session returned
ClassifyHTTPError(status) ==
    IF status = 401 THEN Raised(AuthenticationError, NoValue)
    ELSE IF status = 400 THEN Raised(BadRequestError, "response.text")
    ELSE Raised(ApiRequestFailed, NoValue)

\* What _make_request returns or raises once session.request is over:
\* r is the last answer, v the JSON document a decodable body holds
MakeRequestResult(method, total, r, v) ==
    IF urlopen(method, total, r).act = "raise"
    THEN Raised(NetworkError, NoValue)
    ELSE IF RaisesHTTPError(r.status)
         THEN ClassifyHTTPError(r.status)
         ELSE IF r.json
              THEN Returned(v)
              ELSE Raised(NetworkError, NoValue)     \* JSONDecodeError

\* a transport that reads the credential and the base URL when it sends
WireRequest_ReadsEnv(c, e) ==
    [authorization |-> <<"Bearer", ResolveKey(e, NoValue)>>,
     content_type |-> c.headers.ContentType,
     user_agent |-> c.headers.UserAgent,
     base |-> ResolveUrl(e, NoValue)]

\* Headers and URL of one attempt: the session's headers, the client's api_url
WireRequest(c, e) ==
    [authorization |-> c.headers.Authorization,
     content_type |-> c.headers.ContentType,
     user_agent |-> c.headers.UserAgent,
     base |-> c.api_url]

NoSent ==
    [authorization |-> <<"Bearer", NoValue>>, content_type |-> NoValue,
     user_agent |-> NoValue, base |-> NoValue]

NoDone ==
    [kind |-> NoValue, method |-> NoValue, attempts |-> 0, all_transient |-> FALSE,
     final |-> 0, json |-> FALSE, max_retries |-> 0, result |-> NoOutcome]

\* JSON documents the server may put in a 2xx body, by operation
Bodies(kind, id) ==
    CASE kind = "get_job" -> {Value("job", id, s, 0) : s \in ServerStatuses}
      [] kind = "submit_job" -> {Value("job", j, "pending", 0) : j \in JobIds}
      [] kind = "get_job_result" -> {Value("result", id, NoValue, 1)}
      [] OTHER -> {Value("empty", NoValue, NoValue, 0)}

\* HTTP method of each operation
MethodOf(kind) == IF kind \in {"submit_job", "cancel_job"} THEN "POST" ELSE "GET"

\* An answer as the retry policy of section 4.1 sees it
AnswerClass(r) ==
    IF r.error # "none" THEN "error"
    ELSE IF r.status \in status_forcelist THEN "transient"
    ELSE IF r.status >= 200 /\ r.status < 300 THEN "success"
    ELSE "other"

\* The request after one more attempt was answered by r
Attempted(rq, r) ==
    [rq EXCEPT !.attempts = @ + 1,
               !.total = @ - 1,
               !.all_transient = @ /\ AnswerClass(r) = "transient",
               !.last = AnswerClass(r)]

Finished(c, rq, r, res) ==
    [kind |-> rq.kind, method |-> rq.method, attempts |-> rq.attempts + 1,
     all_transient |-> Attempted(rq, r).all_transient, final |-> r.status,
     json |-> r.json, max_retries |-> c.max_retries, result |-> res]

-----------------------------------------------------------------------------
(* State *)

NoOp == [name |-> "none", id |-> NoValue, wait |-> FALSE, job_timeout |-> 0]

NoWait ==
    [job_id |-> NoValue, timeout |-> 0, poll_interval |-> 0, callback |-> FALSE,
     start_time |-> 0, probe_start |-> 0, probe_time |-> 0, job |-> NoVal,
     cb_raised |-> FALSE, cb_ret |-> NoValue]

ApiOps == {"submit_job", "get_job", "cancel_job", "get_job_result"}

\* Python None where the values are not strings, and a value that is there
Unset == <<>>
Given(v) == <<v>>

\* no request-building call is followed
NoCall == [fn |-> NoValue, args |-> Unset, request |-> Unset]

\* no second caller is followed
NoThreads == <<>>

Logged(kind, id) == [kind |-> kind, id |-> id]

Init ==
    /\ env \in [COMPUTEHIVE_API_KEY : EnvKeys, COMPUTEHIVE_API_URL : EnvUrls]
    /\ client = NoClient
    /\ ctor = NoCtor
    /\ op = NoOp
    /\ pc = "idle"
    /\ req = NoReq
    /\ done = NoDone
    /\ wait = NoWait
    /\ nprobes = 0
    /\ ncallbacks = 0
    /\ last_cb = NoVal
    /\ sleeps = 0
    /\ reqlog = <<>>
    /\ sent = NoSent
    /\ outcome = NoOutcome
    /\ clock = 0
    /\ call = NoCall
    /\ threads = NoThreads

\* The bookkeeping of an operation that starts
Fresh ==
    /\ done' = NoDone
    /\ nprobes' = 0
    /\ ncallbacks' = 0
    /\ last_cb' = NoVal
    /\ sleeps' = 0
    /\ clock' = 0

-----------------------------------------------------------------------------
(* The environment of the process *)

\* os.environ[name] = value, or del os.environ[name]
SetEnv(name, value) ==
    /\ env[name] # value
    /\ env' = [env EXCEPT ![name] = value]
    /\ UNCHANGED <<call, threads, client, ctor, op, pc, req, done, wait, nprobes, ncallbacks,
                   last_cb, sleeps, reqlog, sent, outcome, clock>>

-----------------------------------------------------------------------------
(* Construction *)

\* ComputeHiveClient(api_url, api_key, max_retries=max_retries)
Construct(api_url, api_key, max_retries) ==
    /\ pc = "idle"
    /\ client' = NewClient(env, api_url, api_key, DefaultRequestTimeout, max_retries)
    /\ ctor' = CtorRecord(env, api_url, api_key, client')
    /\ op' = NoOp
    /\ req' = NoReq
    /\ wait' = NoWait
    /\ reqlog' = <<>>
    /\ sent' = NoSent
    /\ outcome' = NoOutcome
    /\ Fresh
    /\ UNCHANGED <<call, threads, env, pc>>

-----------------------------------------------------------------------------
(* API surface: one transport call each *)

\* submit_job / get_job / cancel_job / get_job_result called by the user
ApiCall(kind, id) ==
    /\ pc = "idle"
    /\ client.exists
    /\ op' = [name |-> kind, id |-> id, wait |-> FALSE, job_timeout |-> 0]
    /\ req' = NewReq(client, kind, MethodOf(kind), id)
    /\ pc' = "http"
    /\ reqlog' = <<Logged(kind, id)>>
    /\ wait' = NoWait
    /\ outcome' = NoOutcome
    /\ Fresh
    /\ UNCHANGED <<call, threads, env, client, ctor, sent>>

-----------------------------------------------------------------------------
(* Transport: session.request inside _make_request *)

Answers == Responses \cup Failures

\* answers whose body _make_request decodes and returns, and the others
Decodable(rq, r) == MakeRequestResult(rq.method, rq.total, r, NoVal).kind = "return"

\* a probe is immediate or slow; under the default deadline of the helper
\* the slow one is that long (time.time() is the wall clock, which may jump)
ProbeTimes ==
    IF op.name = "wait_for_job" THEN {0, MaxProbeTime} ELSE {0, DefaultWaitTimeout}

\* An attempt is on the wire and r is its answer
Exchange(r) ==
    /\ pc = "http"
    /\ req.active
    /\ sent' = WireRequest(client, env)

\* urlopen decides to send the request again
HttpRetry ==
    \E r \in Answers :
       /\ Exchange(r)
       /\ urlopen(req.method, req.total, r).act = "retry"
       /\ req' = Attempted(req, r)
       /\ UNCHANGED <<call, threads, env, client, ctor, op, pc, done, wait, nprobes, ncallbacks,
                      last_cb, sleeps, reqlog, outcome, clock>>

\* The last attempt of a request: session.request is over
LastExchange(r) ==
    /\ Exchange(r)
    /\ urlopen(req.method, req.total, r).act # "retry"
    /\ req' = NoReq

\* A user-called operation raises what _make_request raises
HttpApiRaises ==
    \E r \in Answers :
       /\ op.name \in ApiOps
       /\ LastExchange(r)
       /\ ~Decodable(req, r)
       /\ done' = Finished(client, req, r, MakeRequestResult(req.method, req.total, r, NoVal))
       /\ outcome' = done'.result
       /\ pc' = "idle"
       /\ UNCHANGED <<call, threads, env, client, ctor, op, wait, nprobes, ncallbacks, last_cb,
                      sleeps, reqlog, clock>>

\* A user-called operation returns the decoded body; cancel_job drops it
HttpApiReturns ==
    \E r \in Answers, v \in Bodies(req.kind, req.id) :
       /\ op.name \in ApiOps
       /\ LastExchange(r)
       /\ Decodable(req, r)
       /\ done' = Finished(client, req, r, MakeRequestResult(req.method, req.total, r, v))
       /\ outcome' = IF op.name = "cancel_job" THEN Returned(NoVal) ELSE done'.result
       /\ pc' = "idle"
       /\ UNCHANGED <<call, threads, env, client, ctor, op, wait, nprobes, ncallbacks, last_cb,
                      sleeps, reqlog, clock>>

-----------------------------------------------------------------------------
(* Polling engine: wait_for_job *)

\* a terminal test that takes every status but the in-progress ones as final
IsTerminal_NotInProgress(status) == status \notin {"pending", "scheduled", "running"}

\* a terminal test that forgets one of the three statuses
IsTerminal_NoCancelled(status) == status \in {"completed", "failed"}

\* status in ["completed", "failed", "cancelled"]
IsTerminal(status) == status \in TerminalStatuses

\* a loop condition that lets one more probe start at the deadline
DeadlineOpen_Inclusive(now, start_time, timeout) == now - start_time <= timeout

\* the loop condition: time.time() - start_time < timeout
DeadlineOpen(now, start_time, timeout) == now - start_time < timeout

\* time.sleep(poll_interval)
Slept(now, poll_interval) == now + poll_interval

\* what a callback may return: nothing, or a value that asks to stop
CallbackReturns == {NoValue, "stop"}

\* a loop that catches what the callback raises and goes on
Propagates_Swallowed(raises) == FALSE

\* callback(job) is called outside any try: what it raises leaves wait_for_job
Propagates(raises) == raises

\* a loop that reports every failure of a probe as its own timeout
Unhandled_AsTimeout(exc) == Raised(JobTimeoutError, NoValue)

\* get_job(job_id) is called outside any try: what it raises leaves
\* wait_for_job (and quick_run_docker) as it is
Unhandled(exc) == exc

\* a loop that also returns job when the callback returned a true value
ReturnsJob_OnTruthyCallback(job, cb_ret, now, start_time, timeout) ==
    IsTerminal(job.status) \/ Truthy(cb_ret)

\* a loop that returns a terminal job only while the deadline is open
ReturnsJob_BeforeDeadline(job, cb_ret, now, start_time, timeout) ==
    IsTerminal(job.status) /\ DeadlineOpen(now, start_time, timeout)

\* status = job.get("status"); if status in [...]: return job
\* (of what is in scope there, the record alone is looked at: neither the
\* value the callback returned nor the clock)
ReturnsJob(job, cb_ret, now, start_time, timeout) == IsTerminal(job.status)

NewWait(job_id, timeout, poll_interval, callback, now) ==
    [job_id |-> job_id, timeout |-> timeout, poll_interval |-> poll_interval,
     callback |-> callback, start_time |-> now, probe_start |-> now,
     probe_time |-> 0, job |-> NoVal, cb_raised |-> FALSE, cb_ret |-> NoValue]

\* wait_for_job(job_id, timeout, poll_interval, callback): start_time = time.time()
CallWaitForJob(job_id, timeout, poll_interval, callback) ==
    /\ pc = "idle"
    /\ client.exists
    /\ op' = [name |-> "wait_for_job", id |-> job_id, wait |-> TRUE, job_timeout |-> 0]
    /\ wait' = NewWait(job_id, timeout, poll_interval, callback, 0)
    /\ pc' = "w_check"
    /\ req' = NoReq
    /\ reqlog' = <<>>
    /\ outcome' = NoOutcome
    /\ Fresh
    /\ UNCHANGED <<call, threads, env, client, ctor, sent>>

\* while ...: the deadline is open, job = self.get_job(job_id) starts
WaitProbe ==
    /\ pc = "w_check"
    /\ DeadlineOpen(clock, wait.start_time, wait.timeout)
    /\ nprobes < MaxProbes
    /\ req' = NewReq(client, "get_job", MethodOf("get_job"), wait.job_id)
    /\ reqlog' = Append(reqlog, Logged("get_job", wait.job_id))
    /\ wait' = [wait EXCEPT !.probe_start = clock]
    /\ pc' = "http"
    /\ UNCHANGED <<call, threads, env, client, ctor, op, done, nprobes, ncallbacks, last_cb,
                   sleeps, sent, outcome, clock>>

\* the loop condition fails: raise JobError(... did not complete within ...)
WaitTimeout ==
    /\ pc = "w_check"
    /\ ~DeadlineOpen(clock, wait.start_time, wait.timeout)
    /\ outcome' = Raised(JobTimeoutError, NoValue)
    /\ pc' = "idle"
    /\ UNCHANGED <<call, threads, env, client, ctor, op, req, done, wait, nprobes, ncallbacks,
                   last_cb, sleeps, reqlog, sent, clock>>

\* get_job inside the loop raises: the error leaves wait_for_job
HttpProbeRaises ==
    \E r \in Answers :
       /\ op.name \in {"wait_for_job", "quick_run_docker"}
       /\ req.kind = "get_job"
       /\ LastExchange(r)
       /\ ~Decodable(req, r)
       /\ done' = Finished(client, req, r, MakeRequestResult(req.method, req.total, r, NoVal))
       /\ outcome' = Unhandled(done'.result)
       /\ pc' = "idle"
       /\ UNCHANGED <<call, threads, env, client, ctor, op, wait, nprobes, ncallbacks, last_cb,
                      sleeps, reqlog, clock>>

\* get_job inside the loop returns: its record becomes job; d is the time
\* the probe takes
HttpProbeReturns ==
    \E r \in Answers, d \in ProbeTimes, v \in Bodies(req.kind, req.id) :
       /\ op.name \in {"wait_for_job", "quick_run_docker"}
       /\ req.kind = "get_job"
       /\ LastExchange(r)
       /\ Decodable(req, r)
       /\ nprobes' = nprobes + 1
       /\ wait' = [wait EXCEPT !.job = [v EXCEPT !.n = nprobes']]
       /\ pc' = IF wait.callback THEN "w_callback" ELSE "w_status"
       /\ clock' = clock + d
       /\ UNCHANGED <<call, threads, env, client, ctor, op, done, ncallbacks, last_cb, sleeps,
                      reqlog, outcome>>

\* if callback: callback(job); the callback raises, or returns ret, which
\* the expression statement drops
WaitCallback(raises, ret) ==
    /\ pc = "w_callback"
    /\ raises => ret = NoValue
    /\ ncallbacks' = ncallbacks + 1
    /\ last_cb' = wait.job
    /\ wait' = [wait EXCEPT !.cb_raised = raises, !.cb_ret = ret]
    /\ IF Propagates(raises)
       THEN /\ outcome' = Raised(CallbackRaised, NoValue)
            /\ pc' = "idle"
       ELSE /\ pc' = "w_status"
            /\ UNCHANGED outcome
    /\ UNCHANGED <<call, threads, env, client, ctor, op, req, done, nprobes, sleeps,
                   reqlog, sent, clock>>

\* status is terminal: wait_for_job, called by the user, returns job
WaitReturn ==
    /\ pc = "w_status"
    /\ op.name = "wait_for_job"
    /\ ReturnsJob(wait.job, wait.cb_ret, clock, wait.start_time, wait.timeout)
    /\ outcome' = Returned(wait.job)
    /\ pc' = "idle"
    /\ UNCHANGED <<call, threads, env, client, ctor, op, req, done, wait, nprobes, ncallbacks,
                   last_cb, sleeps, reqlog, sent, clock>>

\* status is not terminal: time.sleep(poll_interval), back to the loop condition
WaitSleep ==
    /\ pc = "w_status"
    /\ ~ReturnsJob(wait.job, wait.cb_ret, clock, wait.start_time, wait.timeout)
    /\ clock' = Slept(clock, wait.poll_interval)
    /\ sleeps' = sleeps + 1
    /\ wait' = [wait EXCEPT !.probe_time = clock - wait.probe_start,
                            !.cb_ret = NoValue]
    /\ pc' = "w_check"
    /\ UNCHANGED <<call, threads, env, client, ctor, op, req, done, nprobes, ncallbacks,
                   last_cb, reqlog, sent, outcome>>

-----------------------------------------------------------------------------
(* Convenience layer: quick_run_docker *)

\* the job id quick_run_docker asks the result of: job['id'], job the
\* submitted record and result the record wait_for_job returned
ResultJobId(job, result) == job.id

\* a helper that asks for the result of every job the wait returned
FetchesResult_Always(result) == TRUE

\* a helper that asks for the result of every job that did not fail
FetchesResult_NotFailed(result) == result.status # "failed"

\* result['status'] == 'completed'
FetchesResult(result) == result.status = "completed"

\* a helper that hands the timeout of the job on to its wait
QuickWaitTimeout_FromJob(job_timeout) == job_timeout

\* client.wait_for_job(job['id']): the timeout given for the job (a keyword
\* argument forwarded to submit_docker_job) is not passed on, the wait runs
\* with its default
QuickWaitTimeout(job_timeout) == DefaultWaitTimeout

\* client = create_client(api_key); job = client.submit_docker_job(...,
\* timeout=job_timeout)
CallQuickRun(api_key, wait_flag, job_timeout) ==
    /\ pc = "idle"
    /\ client' = NewClient(env, NoValue, api_key, DefaultRequestTimeout, DefaultMaxRetries)
    /\ ctor' = CtorRecord(env, NoValue, api_key, client')
    /\ op' = [name |-> "quick_run_docker", id |-> NoValue, wait |-> wait_flag,
               job_timeout |-> job_timeout]
    /\ IF client'.exists
       THEN /\ req' = NewReq(client', "submit_job", MethodOf("submit_job"), NoValue)
            /\ reqlog' = <<Logged("submit_job", NoValue)>>
            /\ pc' = "http"
            /\ outcome' = NoOutcome
       ELSE /\ req' = NoReq
            /\ reqlog' = <<>>
            /\ pc' = "idle"
            /\ outcome' = Raised(MissingKeyError, NoValue)
    /\ wait' = NoWait
    /\ sent' = NoSent
    /\ Fresh
    /\ UNCHANGED <<call, threads, env>>

\* submit_docker_job raises: the error leaves quick_run_docker
HttpQuickSubmitRaises ==
    \E r \in Answers :
       /\ op.name = "quick_run_docker"
       /\ req.kind = "submit_job"
       /\ LastExchange(r)
       /\ ~Decodable(req, r)
       /\ done' = Finished(client, req, r, MakeRequestResult(req.method, req.total, r, NoVal))
       /\ outcome' = done'.result
       /\ pc' = "idle"
       /\ UNCHANGED <<call, threads, env, client, ctor, op, wait, nprobes, ncallbacks, last_cb,
                      sleeps, reqlog, clock>>

\* submit_docker_job returns job and wait is false: return job
HttpQuickSubmitReturns ==
    \E r \in Answers, v \in Bodies(req.kind, req.id) :
       /\ op.name = "quick_run_docker"
       /\ req.kind = "submit_job"
       /\ ~op.wait
       /\ LastExchange(r)
       /\ Decodable(req, r)
       /\ done' = Finished(client, req, r, MakeRequestResult(req.method, req.total, r, v))
       /\ outcome' = done'.result
       /\ pc' = "idle"
       /\ UNCHANGED <<call, threads, env, client, ctor, op, wait, nprobes, ncallbacks, last_cb,
                      sleeps, reqlog, clock>>

\* submit_docker_job returns job and wait is true: wait_for_job(job['id'])
\* starts with its default timeout and poll_interval and no callback
HttpQuickSubmitWaits ==
    \E r \in Answers, v \in Bodies(req.kind, req.id) :
       /\ op.name = "quick_run_docker"
       /\ req.kind = "submit_job"
       /\ op.wait
       /\ LastExchange(r)
       /\ Decodable(req, r)
       /\ op' = [op EXCEPT !.id = v.id]
       /\ wait' = NewWait(v.id, QuickWaitTimeout(op.job_timeout),
                          DefaultPollInterval, FALSE, clock)
       /\ pc' = "w_check"
       /\ UNCHANGED <<call, threads, env, client, ctor, done, nprobes, ncallbacks, last_cb,
                      sleeps, reqlog, outcome, clock>>

\* wait_for_job returned result, completed: get_job_result(job['id']) starts
QuickRunFetch ==
    /\ pc = "w_status"
    /\ op.name = "quick_run_docker"
    /\ ReturnsJob(wait.job, wait.cb_ret, clock, wait.start_time, wait.timeout)
    /\ FetchesResult(wait.job)
    /\ req' = NewReq(client, "get_job_result", MethodOf("get_job_result"),
                     ResultJobId(Value("job", op.id, "pending", 0), wait.job))
    /\ reqlog' = Append(reqlog, Logged("get_job_result", req'.id))
    /\ pc' = "http"
    /\ UNCHANGED <<call, threads, env, client, ctor, op, done, wait, nprobes, ncallbacks,
                   last_cb, sleeps, sent, outcome, clock>>

\* wait_for_job returned result, not completed: raise JobError(... status)
QuickRunFail ==
    /\ pc = "w_status"
    /\ op.name = "quick_run_docker"
    /\ ReturnsJob(wait.job, wait.cb_ret, clock, wait.start_time, wait.timeout)
    /\ ~FetchesResult(wait.job)
    /\ outcome' = Raised(JobFailedError, wait.job.status)
    /\ pc' = "idle"
    /\ UNCHANGED <<call, threads, env, client, ctor, op, req, done, wait, nprobes, ncallbacks,
                   last_cb, sleeps, reqlog, sent, clock>>

\* get_job_result raises: the error leaves quick_run_docker
HttpQuickResultRaises ==
    \E r \in Answers :
       /\ op.name = "quick_run_docker"
       /\ req.kind = "get_job_result"
       /\ LastExchange(r)
       /\ ~Decodable(req, r)
       /\ done' = Finished(client, req, r, MakeRequestResult(req.method, req.total, r, NoVal))
       /\ outcome' = done'.result
       /\ pc' = "idle"
       /\ UNCHANGED <<call, threads, env, client, ctor, op, wait, nprobes, ncallbacks, last_cb,
                      sleeps, reqlog, clock>>

\* get_job_result returns: quick_run_docker returns the result record
HttpQuickResultReturns ==
    \E r \in Answers, v \in Bodies(req.kind, req.id) :
       /\ op.name = "quick_run_docker"
       /\ req.kind = "get_job_result"
       /\ LastExchange(r)
       /\ Decodable(req, r)
       /\ done' = Finished(client, req, r, MakeRequestResult(req.method, req.total, r, v))
       /\ outcome' = done'.result
       /\ pc' = "idle"
       /\ UNCHANGED <<call, threads, env, client, ctor, op, wait, nprobes, ncallbacks, last_cb,
                      sleeps, reqlog, clock>>

-----------------------------------------------------------------------------
(* Specification *)

Next ==
    \/ \E v \in EnvKeys : SetEnv("COMPUTEHIVE_API_KEY", v)
    \/ \E v \in EnvUrls : SetEnv("COMPUTEHIVE_API_URL", v)
    \/ \E u \in UrlArgs, k \in KeyArgs, m \in 0..MaxRetriesArg : Construct(u, k, m)
    \/ \E kind \in ApiOps, id \in JobIds : ApiCall(kind, id)
    \/ \E id \in WaitIds, t \in 0..MaxTimeout, p \in 0..MaxPollInterval, cb \in BOOLEAN :
          CallWaitForJob(id, t, p, cb)
    \/ \E k \in KeyArgs, w \in BOOLEAN, jt \in {MaxTimeout, DefaultJobTimeout} :
          CallQuickRun(k, w, jt)
    \/ HttpRetry
    \/ HttpApiRaises
    \/ HttpApiReturns
    \/ HttpProbeRaises
    \/ HttpProbeReturns
    \/ HttpQuickSubmitRaises
    \/ HttpQuickSubmitReturns
    \/ HttpQuickSubmitWaits
    \/ HttpQuickResultRaises
    \/ HttpQuickResultReturns
    \/ WaitProbe
    \/ WaitTimeout
    \/ \E raises \in BOOLEAN, ret \in CallbackReturns : WaitCallback(raises, ret)
    \/ WaitReturn
    \/ WaitSleep
    \/ QuickRunFetch
    \/ QuickRunFail

Spec == Init /\ [][Next]_vars

-----------------------------------------------------------------------------
(* Value model: JobType, the dataclasses and their to_dict *)

\* A dataclass instance is a record of Unset / Given(v) fields; a dict is a
\* function whose domain is the keys it holds ({} and None are both <<>>).

JobTypes == {"DOCKER", "BINARY", "SCRIPT", "WASM"}

\* JobType.<member>.value
JobTypeValue(job_type) ==
    CASE job_type = "DOCKER" -> "docker"
      [] job_type = "BINARY" -> "binary"
      [] job_type = "SCRIPT" -> "script"
      [] job_type = "WASM" -> "wasm"

DefaultGpuCount == 0
DefaultStorageMb == 1024
DefaultNetworkMbps == 100
DefaultCpuCores == 1
DefaultMemoryMb == 1024
DefaultPriority == 5
DefaultJobMaxRetries == 3
DefaultLimit == 100
DefaultOffset == 0

\* Python truth of an optional number, string, object
TruthyNumber(x) == x # Unset /\ x[1] # 0
TruthyString(x) == x # Unset /\ x[1] # ""
TruthyObject(x) == x # Unset

\* the value of a parameter: the argument, or the default when none is passed
Param(x, default) == IF x = Unset THEN default ELSE x[1]

\* {k: v for k, v in asdict(self).items() if v is not None}
to_dict(data) == [k \in {f \in DOMAIN data : data[f] # Unset} |-> data[k][1]]

\* ResourceRequirements(cpu_cores=, memory_mb=, gpu_count=)
ResourceRequirements(cpu_cores, memory_mb, gpu_count) ==
    [cpu_cores |-> Given(cpu_cores), memory_mb |-> Given(memory_mb),
     gpu_count |-> Given(gpu_count), gpu_type |-> Unset,
     storage_mb |-> Given(DefaultStorageMb),
     network_mbps |-> Given(DefaultNetworkMbps),
     trusted_exec |-> Given(FALSE), capabilities |-> Unset]

\* JobPayload()
EmptyPayload ==
    [image |-> Unset, command |-> Unset, env |-> Unset, binary_url |-> Unset,
     args |-> Unset, script |-> Unset, language |-> Unset,
     input_data |-> Unset, output_path |-> Unset]

\* the fields JobPayload groups under each job type
VariantFields(job_type) ==
    CASE job_type = "DOCKER" -> {"image", "command", "env"}
      [] job_type = "BINARY" -> {"binary_url", "args"}
      [] job_type = "SCRIPT" -> {"script", "language"}
      [] job_type = "WASM" -> {}

\* of these, the one a job of the type cannot run without
RequiredFields(job_type) ==
    CASE job_type = "DOCKER" -> {"image"}
      [] job_type = "BINARY" -> {"binary_url"}
      [] job_type = "SCRIPT" -> {"script"}
      [] job_type = "WASM" -> {}

AllVariantFields == UNION {VariantFields(t) : t \in JobTypes}

\* SLARequirements(max_latency_ms=, max_cost_per_hour=)
SLARequirements(max_latency_ms, max_cost_per_hour) ==
    [max_latency_ms |-> max_latency_ms, min_availability |-> Unset,
     max_cost_per_hour |-> max_cost_per_hour, preferred_regions |-> Unset]

-----------------------------------------------------------------------------
(* API surface: the request each operation hands to _make_request *)

\* _make_request(method, endpoint, data=, params=)
Request(method, endpoint, data, params) ==
    [method |-> method, endpoint |-> endpoint, data |-> data, params |-> params]

\* params = {}; if x: params["x"] = x  (for numbers and for strings)
PutIfTruthyNumber(params, key, x) ==
    IF TruthyNumber(x) THEN params @@ (key :> x[1]) ELSE params
PutIfTruthyString(params, key, x) ==
    IF TruthyString(x) THEN params @@ (key :> x[1]) ELSE params

\* get_marketplace_offers(min_cpu, min_memory, max_price, region)
get_marketplace_offers(a) ==
    Request("GET", "/api/v1/marketplace/offers", Unset,
            PutIfTruthyString(
              PutIfTruthyNumber(
                PutIfTruthyNumber(
                  PutIfTruthyNumber(<<>>, "min_cpu", a.min_cpu),
                  "min_memory", a.min_memory),
                "max_price", a.max_price),
              "region", a.region))

\* get_usage_stats(start_date, end_date)
get_usage_stats(a) ==
    Request("GET", "/api/v1/stats/usage", Unset,
            PutIfTruthyString(PutIfTruthyString(<<>>, "start_date", a.start_date),
                              "end_date", a.end_date))

\* list_jobs(status, limit, offset); a JobStatus member is a true value
list_jobs(a) ==
    LET params == [limit |-> Param(a.limit, DefaultLimit),
                   offset |-> Param(a.offset, DefaultOffset)]
    IN  Request("GET", "/api/v1/jobs", Unset,
                IF TruthyObject(a.status)
                THEN params @@ ("status" :> a.status[1])
                ELSE params)

\* submit_job(job_type, requirements, payload, priority, timeout, max_retries,
\* sla_requirements); an SLARequirements instance is a true value
submit_job(job_type, requirements, payload, kw) ==
    LET data == [type |-> JobTypeValue(job_type),
                 requirements |-> to_dict(requirements),
                 payload |-> to_dict(payload),
                 priority |-> Param(kw.priority, DefaultPriority),
                 timeout |-> Param(kw.timeout, DefaultJobTimeout),
                 max_retries |-> Param(kw.max_retries, DefaultJobMaxRetries)]
    IN  Request("POST", "/api/v1/jobs",
                IF TruthyObject(kw.sla_requirements)
                THEN data @@ ("sla_requirements" :> to_dict(kw.sla_requirements[1]))
                ELSE data,
                Unset)

\* [f"{k}={v}" for k, v in (env or {}).items()], a mapping being the
\* sequence of its (key, value) pairs in insertion order
EnvList(mapping) ==
    LET items == Param(mapping, <<>>)
    IN  [i \in 1..Len(items) |-> <<items[i][1], "=", items[i][2]>>]

\* submit_docker_job(image, command, cpu_cores, memory_mb, gpu_count, env, **kwargs)
submit_docker_job(a) ==
    submit_job("DOCKER",
               ResourceRequirements(Param(a.cpu_cores, DefaultCpuCores),
                                    Param(a.memory_mb, DefaultMemoryMb),
                                    Param(a.gpu_count, DefaultGpuCount)),
               [EmptyPayload EXCEPT !.image = Given(a.image),
                                    !.command = Given(a.command),
                                    !.env = Given(EnvList(a.env))],
               a.kwargs)

\* submit_script_job(script, language, cpu_cores, memory_mb, **kwargs)
submit_script_job(a) ==
    submit_job("SCRIPT",
               ResourceRequirements(Param(a.cpu_cores, DefaultCpuCores),
                                    Param(a.memory_mb, DefaultMemoryMb),
                                    DefaultGpuCount),
               [EmptyPayload EXCEPT !.script = Given(a.script),
                                    !.language = Given(a.language)],
               a.kwargs)

-----------------------------------------------------------------------------
(* The caller of one request-building operation *)

OptNumbers(vs) == {Unset} \cup {Given(v) : v \in vs}

\* keyword arguments forwarded to submit_job
SlaArgs ==
    {Unset} \cup {Given(SLARequirements(l, c)) :
                     l \in OptNumbers({0, 10}), c \in OptNumbers({0})}
Kwargs ==
    [priority : OptNumbers({0, 7}), timeout : {Unset}, max_retries : {Unset},
     sla_requirements : SlaArgs]
NoKwargs ==
    [priority |-> Unset, timeout |-> Unset, max_retries |-> Unset,
     sla_requirements |-> Unset]

\* payloads a caller of submit_job may build: any of the variant fields
Payloads ==
    {[EmptyPayload EXCEPT !.image = p.image, !.command = p.command,
                          !.binary_url = p.binary_url, !.script = p.script,
                          !.language = p.language] :
        p \in [image : {Unset, Given("alpine")},
               command : {Unset, Given(<<"echo", "ok">>)},
               binary_url : {Unset, Given("https://bin")},
               script : {Unset, Given("print(1)")},
               language : {Unset, Given("python")}]}

EnvArgs == {Unset, Given(<<>>), Given(<<<<"A", "1">>, <<"B", "2">>>>)}

Called(fn, args) == [fn |-> fn, args |-> args, request |-> Unset]

OffersCalls ==
    {Called("get_marketplace_offers", a) :
        a \in [min_cpu : OptNumbers({0, 2}), min_memory : OptNumbers({0, 512}),
               max_price : OptNumbers({0, 1}), region : {Unset, Given(""), Given("eu")}]}
UsageCalls ==
    {Called("get_usage_stats", a) :
        a \in [start_date : {Unset, Given(""), Given("2024-01-01")},
               end_date : {Unset, Given(""), Given("2024-01-31")}]}
ListCalls ==
    {Called("list_jobs", a) :
        a \in [status : {Unset} \cup {Given(st) : st \in JobStatus},
               limit : OptNumbers({0, 50}), offset : OptNumbers({0, 10})]}
SubmitCalls ==
    {Called("submit_job", a) :
        a \in [job_type : JobTypes,
               requirements : {ResourceRequirements(2, 512, DefaultGpuCount)},
               payload : Payloads, kwargs : Kwargs]}
DockerCalls ==
    {Called("submit_docker_job", a) :
        a \in [image : {"alpine"}, command : {<<"echo", "ok">>, <<>>},
               cpu_cores : OptNumbers({2}), memory_mb : OptNumbers({512}),
               gpu_count : {Unset}, env : EnvArgs, kwargs : Kwargs \cup {NoKwargs}]}
ScriptCalls ==
    {Called("submit_script_job", a) :
        a \in [script : {"print(1)"}, language : {"python", ""},
               cpu_cores : OptNumbers({2}), memory_mb : OptNumbers({512}),
               kwargs : Kwargs]}

\* a client exists and the caller is about to make one call
InitBuild ==
    /\ \/ call \in OffersCalls
       \/ call \in UsageCalls
       \/ call \in ListCalls
       \/ call \in SubmitCalls
       \/ call \in DockerCalls
       \/ call \in ScriptCalls
    /\ env = [COMPUTEHIVE_API_KEY |-> "k2", COMPUTEHIVE_API_URL |-> NoValue]
    /\ client = NewClient(env, NoValue, NoValue, DefaultRequestTimeout, DefaultMaxRetries)
    /\ ctor = CtorRecord(env, NoValue, NoValue, client)
    /\ op = NoOp
    /\ pc = "idle"
    /\ req = NoReq
    /\ done = NoDone
    /\ wait = NoWait
    /\ nprobes = 0
    /\ ncallbacks = 0
    /\ last_cb = NoVal
    /\ sleeps = 0
    /\ reqlog = <<>>
    /\ sent = NoSent
    /\ outcome = NoOutcome
    /\ clock = 0
    /\ threads = NoThreads

\* the operation fn runs up to its _make_request call, which gets request
Builds(fn, request) ==
    /\ client.exists
    /\ call.fn = fn
    /\ call.request = Unset
    /\ call' = [call EXCEPT !.request = Given(request)]
    /\ UNCHANGED <<env, client, ctor, op, pc, req, done, wait, nprobes, ncallbacks,
                   last_cb, sleeps, reqlog, sent, outcome, clock, threads>>

GetMarketplaceOffers == Builds("get_marketplace_offers", get_marketplace_offers(call.args))

GetUsageStats == Builds("get_usage_stats", get_usage_stats(call.args))

ListJobs == Builds("list_jobs", list_jobs(call.args))

SubmitJob ==
    Builds("submit_job",
           submit_job(call.args.job_type, call.args.requirements,
                      call.args.payload, call.args.kwargs))

SubmitDockerJob == Builds("submit_docker_job", submit_docker_job(call.args))

SubmitScriptJob == Builds("submit_script_job", submit_script_job(call.args))

NextBuild ==
    \/ GetMarketplaceOffers
    \/ GetUsageStats
    \/ ListJobs
    \/ SubmitJob
    \/ SubmitDockerJob
    \/ SubmitScriptJob

SpecBuild == InitBuild /\ [][NextBuild]_vars

-----------------------------------------------------------------------------
(* Two callers on one client: wait_for_job run concurrently *)

\* Each caller has a frame with the locals of its wait_for_job call; the
\* client, its session and the clock are shared.  A sleeping caller does not
\* hold the clock: time passes by Tick, and the sleep is over once
\* poll_interval has passed.

Callers == {"t1", "t2"}

\* where a name of wait_for_job may live: in the frame of a caller, or on
\* the client as an attribute
Slots == Callers \cup {"self"}

\* a wait_for_job that keeps job in an attribute of the client
JobSlot_Attribute(t) == "self"

\* job = self.get_job(job_id) binds a local of the call of caller t
JobSlot(t) == t

\* the clock stops once every deadline a caller may set has passed
Horizon == MaxTimeout + MaxPollInterval

\* the job each caller waits for
CallerJob(t) == IF t = "t1" THEN "j1" ELSE "j2"

\* what the two callers pass: no time at all or the longest time followed
CallerTimeouts == {0, MaxTimeout}
CallerPollIntervals == {0, MaxPollInterval}

\* records the server answers the probes of the callers with
CallerBodies(id) ==
    {v \in Bodies("get_job", id) : v.status \in {"running", "completed", "failed"}}

NoFrame ==
    [pc |-> "idle", job_id |-> NoValue, timeout |-> 0, poll_interval |-> 0,
     start_time |-> 0, wake |-> 0, total |-> 0, overlapped |-> FALSE,
     own |-> NoVal, own_err |-> NoOutcome, outcome |-> NoOutcome]

\* the client two callers share
SharedClient(max_retries) ==
    NewClient([COMPUTEHIVE_API_KEY |-> "k2", COMPUTEHIVE_API_URL |-> NoValue],
              NoValue, NoValue, DefaultRequestTimeout, max_retries)

InitConc ==
    /\ env = [COMPUTEHIVE_API_KEY |-> "k2", COMPUTEHIVE_API_URL |-> NoValue]
    /\ client = SharedClient(MaxRetriesArg)
    /\ ctor = CtorRecord(env, NoValue, NoValue, client)
    /\ threads = [frames |-> [t \in Callers |-> NoFrame],
                  jobs |-> [x \in Slots |-> NoVal]]
    /\ op = NoOp
    /\ pc = "idle"
    /\ req = NoReq
    /\ done = NoDone
    /\ wait = NoWait
    /\ nprobes = 0
    /\ ncallbacks = 0
    /\ last_cb = NoVal
    /\ sleeps = 0
    /\ reqlog = <<>>
    /\ sent = NoSent
    /\ outcome = NoOutcome
    /\ clock = 0
    /\ call = NoCall

\* what a step of one caller leaves alone, the client included
ConcFrame ==
    UNCHANGED <<env, client, ctor, op, pc, req, done, wait, nprobes, ncallbacks,
                last_cb, sleeps, reqlog, sent, outcome, call>>

Frame(t) == threads.frames[t]

InCall(t) == Frame(t).pc \notin {"idle", "done"}

\* caller t calls wait_for_job(job_id, timeout, poll_interval)
ThreadCall(t, job_id, timeout, poll_interval) ==
    /\ Frame(t).pc = "idle"
    /\ client.exists
    /\ threads' =
          [threads EXCEPT
             !.frames = [u \in Callers |->
                IF u = t
                THEN [NoFrame EXCEPT !.pc = "w_check", !.job_id = job_id,
                                     !.timeout = timeout,
                                     !.poll_interval = poll_interval,
                                     !.start_time = clock,
                                     !.overlapped = \E o \in Callers \ {t} : InCall(o)]
                ELSE [@[u] EXCEPT !.overlapped = @ \/ InCall(u)]]]
    /\ UNCHANGED clock
    /\ ConcFrame

\* the loop condition holds: get_job(job_id) starts with a fresh retry budget
ThreadProbe(t) ==
    /\ Frame(t).pc = "w_check"
    /\ DeadlineOpen(clock, Frame(t).start_time, Frame(t).timeout)
    /\ threads' = [threads EXCEPT !.frames[t].pc = "http",
                                  !.frames[t].total = client.max_retries]
    /\ UNCHANGED clock
    /\ ConcFrame

\* the loop condition fails: JobError
ThreadTimeout(t) ==
    /\ Frame(t).pc = "w_check"
    /\ ~DeadlineOpen(clock, Frame(t).start_time, Frame(t).timeout)
    /\ threads' = [threads EXCEPT !.frames[t].pc = "done",
                                  !.frames[t].outcome = Raised(JobTimeoutError, NoValue)]
    /\ UNCHANGED clock
    /\ ConcFrame

\* urlopen sends the request of caller t again
ThreadRetry(t) ==
    \E r \in Answers :
       /\ Frame(t).pc = "http"
       /\ urlopen("GET", Frame(t).total, r).act = "retry"
       /\ threads' = [threads EXCEPT !.frames[t].total = @ - 1]
       /\ UNCHANGED clock
       /\ ConcFrame

\* get_job of caller t raises
ThreadProbeRaises(t) ==
    \E r \in Answers :
       /\ Frame(t).pc = "http"
       /\ urlopen("GET", Frame(t).total, r).act # "retry"
       /\ MakeRequestResult("GET", Frame(t).total, r, NoVal).kind = "raise"
       /\ threads' =
             [threads EXCEPT
                !.frames[t].pc = "done",
                !.frames[t].own_err = MakeRequestResult("GET", Frame(t).total, r, NoVal),
                !.frames[t].outcome =
                   Unhandled(MakeRequestResult("GET", Frame(t).total, r, NoVal))]
       /\ UNCHANGED clock
       /\ ConcFrame

\* get_job of caller t returns the record v of its job: job = v
ThreadProbeReturns(t) ==
    \E r \in Answers, v \in CallerBodies(Frame(t).job_id) :
       /\ Frame(t).pc = "http"
       /\ urlopen("GET", Frame(t).total, r).act # "retry"
       /\ MakeRequestResult("GET", Frame(t).total, r, v).kind = "return"
       /\ threads' = [threads EXCEPT !.frames[t].pc = "w_status",
                                     !.frames[t].own = v,
                                     !.jobs[JobSlot(t)] = v]
       /\ UNCHANGED clock
       /\ ConcFrame

\* the status of job is terminal: return job
ThreadReturn(t) ==
    /\ Frame(t).pc = "w_status"
    /\ ReturnsJob(threads.jobs[JobSlot(t)], NoValue, clock,
                  Frame(t).start_time, Frame(t).timeout)
    /\ threads' = [threads EXCEPT !.frames[t].pc = "done",
                                  !.frames[t].outcome = Returned(threads.jobs[JobSlot(t)])]
    /\ UNCHANGED clock
    /\ ConcFrame

\* the status of job is not terminal: time.sleep(poll_interval) starts
ThreadSleep(t) ==
    /\ Frame(t).pc = "w_status"
    /\ ~ReturnsJob(threads.jobs[JobSlot(t)], NoValue, clock,
                   Frame(t).start_time, Frame(t).timeout)
    /\ threads' = [threads EXCEPT !.frames[t].pc = "sleep",
                                  !.frames[t].wake = Slept(clock, Frame(t).poll_interval)]
    /\ UNCHANGED clock
    /\ ConcFrame

\* time.sleep(poll_interval) returns
ThreadWake(t) ==
    /\ Frame(t).pc = "sleep"
    /\ clock >= Frame(t).wake
    /\ threads' = [threads EXCEPT !.frames[t].pc = "w_check",
                                  !.frames[t].wake = 0]
    /\ UNCHANGED clock
    /\ ConcFrame

\* time passes
Tick ==
    /\ clock < Horizon
    /\ clock' = clock + 1
    /\ UNCHANGED threads
    /\ ConcFrame

NextConc ==
    \/ \E t \in Callers, d \in CallerTimeouts, p \in CallerPollIntervals :
          ThreadCall(t, CallerJob(t), d, p)
    \/ \E t \in Callers : ThreadProbe(t)
    \/ \E t \in Callers : ThreadTimeout(t)
    \/ \E t \in Callers : ThreadRetry(t)
    \/ \E t \in Callers : ThreadProbeRaises(t)
    \/ \E t \in Callers : ThreadProbeReturns(t)
    \/ \E t \in Callers : ThreadReturn(t)
    \/ \E t \in Callers : ThreadSleep(t)
    \/ \E t \in Callers : ThreadWake(t)
    \/ Tick

SpecConc == InitConc /\ [][NextConc]_vars

-----------------------------------------------------------------------------
(* Properties *)

InWait == op.name \in {"wait_for_job", "quick_run_docker"} /\ wait.job_id # NoValue

Elapsed == clock - wait.start_time

WaitEnded == op.name = "wait_for_job" /\ pc = "idle" /\ outcome.kind # "none"

TimedOut == WaitEnded /\ outcome.err = JobTimeoutError

\* C1: once a get_job probe of a wait has returned a record whose status is
\* completed, failed or cancelled, no further probe is started and no sleep
\* is made (every probe before it was followed by exactly one sleep), and
\* when wait_for_job returns, it returns that very record.
C1_StopsOnTerminal ==
    /\ (InWait /\ wait.job.status \in TerminalStatuses) =>
          /\ wait.job.n = nprobes
          /\ sleeps = nprobes - 1
          /\ pc # "w_check"
          /\ ~(req.active /\ req.kind = "get_job")
          /\ Len(SelectSeq(reqlog, LAMBDA e : e.kind = "get_job")) = nprobes
    /\ (WaitEnded /\ outcome.kind = "return") =>
          /\ outcome.val = wait.job
          /\ wait.job.status \in TerminalStatuses

\* wait_for_job returned the record of its second probe
C1_Witness ==
    /\ WaitEnded
    /\ outcome.kind = "return"
    /\ nprobes >= 2
    /\ sleeps = 1

\* C2: a wait_for_job call with a callback whose probes, if any, all
\* succeeded has invoked the callback at least once when it returns or
\* fails, whatever timeout and poll_interval are.
C2_CallbackAtLeastOnce ==
    (/\ WaitEnded
     /\ wait.callback
     /\ outcome.err \in {NoErr, JobTimeoutError, CallbackRaised})
    => ncallbacks >= 1

GaveUpOnTransient == done.attempts > 0 /\ done.all_transient

\* C4: whatever the HTTP method, the transport keeps re-sending while the
\* answers are transient statuses and the budget lasts (it gives up on a
\* transient status only after max_retries + 1 attempts), and a decodable
\* 2xx answer makes the call return the decoded document.
C4_RetryThenSuccess ==
    /\ GaveUpOnTransient => done.attempts = done.max_retries + 1
    /\ (done.attempts > 0 /\ done.final = 200 /\ done.json) =>
          done.result.kind = "return"

\* C5: a request whose every attempt got a transient status was attempted
\* exactly max_retries + 1 times and fails as "API request failed".
C5_ExhaustedIsApiFailure ==
    GaveUpOnTransient =>
       /\ done.attempts = done.max_retries + 1
       /\ done.result.kind = "raise"
       /\ done.result.err = ApiRequestFailed

\* C6: a request is never sent again after an answer with a non-2xx status
\* outside {429, 500, 502, 503, 504}.
C6_NoResendAfterNonRetryable ==
    req.active => req.last # "other"

\* C7: a failed request raises the kind its final answer determines: 401
\* authentication failure, 400 bad request with the response body, any other
\* non-2xx status api failure, a transport failure network failure.
C7_ErrorClassification ==
    (done.attempts > 0 /\ done.result.kind = "raise") =>
       /\ done.final = 401 => done.result.err = AuthenticationError
       /\ done.final = 400 =>
             /\ done.result.err = BadRequestError
             /\ done.result.text = "response.text"
       /\ (done.final >= 300 /\ done.final \notin {400, 401}) =>
             done.result.err = ApiRequestFailed
       /\ done.final = 0 => done.result.err = NetworkError

\* C8: a construction given no api_key argument while COMPUTEHIVE_API_KEY
\* is unset fails with AuthenticationError, one given a non-empty key by the
\* argument or by the variable succeeds; and while there is no client no
\* request is in flight and none was sent.
C8_MissingKey ==
    /\ ctor.called =>
          /\ ctor.absent =>
                /\ ctor.result.cls = "AuthenticationError"
                /\ ~client.exists
          /\ ctor.provided =>
                /\ ctor.result = NoErr
                /\ client.exists
          /\ ctor.result = NoErr \/ ctor.result.cls = "AuthenticationError"
    /\ ~client.exists =>
          /\ ~req.active
          /\ sent = NoSent
          /\ reqlog = <<>>
          /\ pc = "idle"

\* a construction with neither argument nor variable has failed
C8_Witness ==
    /\ ctor.called
    /\ ctor.absent
    /\ ~client.exists
    /\ ctor.result = MissingKeyError

QuickWaiting == op.name = "quick_run_docker" /\ op.wait

\* C10: in quick_run_docker with wait, the requests go out in the order
\* submit_job, then get_job probes, then at most one get_job_result, which
\* is last, asks for the id of the submitted job and is made only after a
\* probe returned completed; a completed wait always asks for it, and what
\* quick_run_docker returns is the record that request fetched.
C10_QuickRunResult ==
    QuickWaiting =>
       /\ \A i \in 1..Len(reqlog) :
             /\ (reqlog[i].kind = "submit_job") <=> (i = 1)
             /\ reqlog[i].kind = "get_job_result" =>
                   /\ i = Len(reqlog)
                   /\ i >= 3
                   /\ reqlog[i].id = op.id
                   /\ wait.job.status = "completed"
                   /\ \A j \in 2..(i - 1) : reqlog[j] = Logged("get_job", op.id)
       /\ (wait.job.status = "completed" /\ pc \in {"http", "idle"}) =>
             Last(reqlog).kind = "get_job_result"
       /\ (pc = "idle" /\ outcome.kind = "return") =>
             /\ Last(reqlog).kind = "get_job_result"
             /\ outcome.val.tag = "result"
             /\ outcome.val.id = op.id
             /\ done.kind = "get_job_result"

\* quick_run_docker returned the result record after two probes
C10_Witness ==
    /\ QuickWaiting
    /\ pc = "idle"
    /\ outcome.kind = "return"
    /\ outcome.val.tag = "result"
    /\ nprobes >= 2

\* get_job requests the current operation has started
ProbesStarted == Len(SelectSeq(reqlog, LAMBDA e : e.kind = "get_job"))

\* C11: when the wait of quick_run_docker (wait=true) has observed failed or
\* cancelled, no get_job_result request is made, and quick_run_docker fails
\* with the job failure that carries that status.
C11_QuickRunFailure ==
    (QuickWaiting /\ wait.job.status \in {"failed", "cancelled"}) =>
       /\ \A i \in 1..Len(reqlog) : reqlog[i].kind # "get_job_result"
       /\ ~req.active
       /\ pc \in {"w_status", "idle"}
       /\ pc = "idle" =>
             /\ outcome = Raised(JobFailedError, wait.job.status)
             /\ done = NoDone

\* quick_run_docker failed on a job its second probe found cancelled
C11_Witness ==
    /\ QuickWaiting
    /\ pc = "idle"
    /\ outcome.err = JobFailedError
    /\ outcome.text = "cancelled"
    /\ nprobes >= 2

\* C12: once the callback has raised, wait_for_job is over with that very
\* exception (not a job timeout, not a return), whatever the status of the
\* record the callback was given: no probe, request or sleep follows it.
C12_CallbackRaisePropagates ==
    wait.cb_raised =>
       /\ pc = "idle"
       /\ outcome = Raised(CallbackRaised, NoValue)
       /\ ~req.active
       /\ ProbesStarted = nprobes
       /\ ncallbacks = nprobes
       /\ sleeps = nprobes - 1
       /\ last_cb = wait.job

\* the callback raised on the completed record of the second probe
C12_Witness ==
    /\ wait.cb_raised
    /\ wait.job.status = "completed"
    /\ nprobes = 2
    /\ outcome.err = CallbackRaised

\* the get_job probe of a wait has failed
ProbeFailed == InWait /\ done.kind = "get_job" /\ done.result.kind = "raise"

\* C13: when a get_job probe of wait_for_job fails, wait_for_job is over
\* with the error _make_request raised for it (authentication failure, bad
\* request, api failure or network failure, never job timeout); the loop
\* made no further request for that probe, no callback call and no sleep.
C13_ProbeErrorPropagates ==
    ProbeFailed =>
       /\ pc = "idle"
       /\ outcome = done.result
       /\ outcome.err \in {AuthenticationError, BadRequestError,
                           ApiRequestFailed, NetworkError}
       /\ ~req.active
       /\ ProbesStarted = nprobes + 1
       /\ ncallbacks = (IF wait.callback THEN nprobes ELSE 0)
       /\ sleeps = nprobes

\* the second probe of a wait with a callback failed with 401
C13_Witness ==
    /\ ProbeFailed
    /\ op.name = "wait_for_job"
    /\ wait.callback
    /\ nprobes = 1
    /\ outcome.err = AuthenticationError

\* C14: in a wait_for_job with a callback, the callback has been invoked
\* once for each probe that returned a record, the i-th invocation with the
\* record of the i-th probe; whatever the callback returned, the loop goes
\* on exactly when that record's status is not terminal, and wait_for_job
\* returns the record of the last probe.
C14_CallbackOncePerPoll ==
    (op.name = "wait_for_job" /\ wait.callback) =>
       /\ ncallbacks = (IF pc = "w_callback" THEN nprobes - 1 ELSE nprobes)
       /\ ncallbacks > 0 => last_cb.n = ncallbacks
       /\ (ncallbacks > 0 /\ pc # "w_callback") => last_cb = wait.job
       /\ (pc \in {"w_check", "http"} /\ nprobes > 0) =>
             wait.job.status \notin TerminalStatuses
       /\ (WaitEnded /\ outcome.kind = "return") =>
             /\ outcome.val = last_cb
             /\ outcome.val.status \in TerminalStatuses
             /\ sleeps = nprobes - 1

\* the callback was invoked a second time and returned a true value on a
\* record that is not terminal
C14_Witness ==
    /\ op.name = "wait_for_job"
    /\ pc = "w_status"
    /\ ncallbacks = 2
    /\ wait.cb_ret = "stop"
    /\ wait.job.status = "running"

\* C18: a cancel_job whose final answer has a 2xx status, whatever its
\* body, was sent once and returns no value.
C18_CancelAcceptsAny2xx ==
    (done.kind = "cancel_job" /\ done.final >= 200 /\ done.final < 300) =>
       /\ done.attempts = 1
       /\ done.method = "POST"
       /\ outcome = Returned(NoVal)

\* C20: a probe of wait_for_job starts only while the deadline is open; a
\* record with a terminal status is returned whatever the clock says by
\* then; job timeout is raised only when no probe was made or the last one
\* observed a status that is not terminal.
C20_TerminalWinsOverDeadline ==
    /\ (InWait /\ req.active /\ req.kind = "get_job") =>
          wait.probe_start - wait.start_time < wait.timeout
    /\ (WaitEnded /\ nprobes > 0 /\ wait.job.status \in TerminalStatuses
          /\ ~wait.cb_raised /\ ~ProbeFailed) =>
          outcome = Returned(wait.job)
    /\ TimedOut =>
          (nprobes = 0 \/ wait.job.status \notin TerminalStatuses)

\* wait_for_job returned a terminal record after the deadline had passed
C20_Witness ==
    /\ WaitEnded
    /\ outcome.kind = "return"
    /\ nprobes > 0
    /\ Elapsed >= wait.timeout

\* the call followed has handed its request to _make_request
Built(fns) == call.fn \in fns /\ call.request # Unset

SubmitFns == {"submit_job", "submit_docker_job", "submit_script_job"}

\* in the map m (a query map, a request body), key is there exactly when
\* the caller gave the argument x, with the value given
SentIffGiven(m, key, x) ==
    /\ (key \in DOMAIN m) <=> (x # Unset)
    /\ (key \in DOMAIN m) => m[key] = x[1]

\* C16: the query maps of get_marketplace_offers, get_usage_stats and
\* list_jobs hold each optional filter exactly when the caller gave a value
\* for it (0 and "" included), with that value; the body of submit_job
\* holds sla_requirements exactly when the caller gave one, and of its
\* fields those that were given.
C16_OmitsExactlyUnset ==
    /\ Built({"get_marketplace_offers"}) =>
          \A f \in {"min_cpu", "min_memory", "max_price", "region"} :
             SentIffGiven(call.request[1].params, f, call.args[f])
    /\ Built({"get_usage_stats"}) =>
          \A f \in {"start_date", "end_date"} :
             SentIffGiven(call.request[1].params, f, call.args[f])
    /\ Built({"list_jobs"}) =>
          SentIffGiven(call.request[1].params, "status", call.args.status)
    /\ Built({"submit_job"}) =>
          /\ ("sla_requirements" \in DOMAIN call.request[1].data)
                <=> (call.args.kwargs.sla_requirements # Unset)
          /\ call.args.kwargs.sla_requirements # Unset =>
                \A f \in {"max_latency_ms", "max_cost_per_hour"} :
                   SentIffGiven(call.request[1].data.sla_requirements, f,
                                call.args.kwargs.sla_requirements[1][f])

\* the JobType member a body declares
DeclaredType(data) == CHOOSE t \in JobTypes : JobTypeValue(t) = data.type

\* C17: the payload of every body submit_job posts, called directly or by
\* submit_docker_job / submit_script_job, holds the fields its declared job
\* type requires and no field of another job type.
C17_PayloadMatchesType ==
    Built(SubmitFns) =>
       LET data == call.request[1].data
           sent_fields == DOMAIN data.payload
       IN  /\ RequiredFields(DeclaredType(data)) \subseteq sent_fields
           /\ (sent_fields \cap AllVariantFields)
                 \subseteq VariantFields(DeclaredType(data))

\* C19: the body of submit_docker_job(image, command, cpu_cores, memory_mb)
\* with no other option has priority 5, timeout 3600, max_retries 3, the
\* arguments at requirements.cpu_cores, payload.image and payload.command,
\* and type "container-image"; the type of every submitted body is one of
\* the four type strings of the specification.
C19_ContainerJobBody ==
    /\ (Built({"submit_docker_job"}) /\ call.args.kwargs = NoKwargs) =>
          LET data == call.request[1].data
          IN  /\ data.priority = DefaultPriority
              /\ data.timeout = DefaultJobTimeout
              /\ data.max_retries = DefaultJobMaxRetries
              /\ data.requirements.cpu_cores = Param(call.args.cpu_cores, DefaultCpuCores)
              /\ data.payload.image = call.args.image
              /\ data.payload.command = call.args.command
              /\ data.type = "container-image"
    /\ Built(SubmitFns) =>
          call.request[1].data.type \in
             {"container-image", "prebuilt-binary", "inline-script",
              "portable-bytecode"}

\* C15: with two callers in wait_for_job on one client, no step of either
\* changes the client (its key, base URL, headers and retry setting stay as
\* constructed), and each call ends by what its own requests were answered:
\* it returns the record of its own last probe, a terminal record of the job
\* it waits for; it raises the error of its own failed probe; it times out
\* only when its own last probe, if any, was not terminal.
C15_CallersIndependent ==
    /\ threads # NoThreads =>
          /\ client.exists
          /\ client.api_key = ctor.key
          /\ client.api_url = ctor.url
          /\ client.headers = [Authorization |-> <<"Bearer", ctor.key>>,
                               ContentType |-> "application/json",
                               UserAgent |-> UserAgent]
          /\ client.timeout = DefaultRequestTimeout
          /\ \A t \in Callers :
                Frame(t).pc = "done" =>
                   /\ Frame(t).outcome.kind = "return" =>
                         /\ Frame(t).outcome.val = Frame(t).own
                         /\ Frame(t).outcome.val.id = Frame(t).job_id
                         /\ Frame(t).outcome.val.status \in TerminalStatuses
                         /\ Frame(t).own_err = NoOutcome
                   /\ Frame(t).outcome.kind = "raise" =>
                         \/ /\ Frame(t).outcome = Frame(t).own_err
                            /\ Frame(t).outcome.err # JobTimeoutError
                         \/ /\ Frame(t).outcome = Raised(JobTimeoutError, NoValue)
                            /\ Frame(t).own_err = NoOutcome
                            /\ Frame(t).own.status \notin TerminalStatuses

\* two calls that overlapped in time ended differently: one returned the
\* completed record of j1, the other the failed record of j2
C15_Witness ==
    /\ threads # NoThreads
    /\ Frame("t1").overlapped
    /\ Frame("t2").overlapped
    /\ Frame("t1").pc = "done"
    /\ Frame("t2").pc = "done"
    /\ Frame("t1").outcome = Returned(Value("job", "j1", "completed", 0))
    /\ Frame("t2").outcome = Returned(Value("job", "j2", "failed", 0))

\* C21: a record whose status is missing or is none of completed, failed,
\* cancelled (a value outside JobStatus included) is never returned by
\* wait_for_job: the loop sleeps and goes back to its condition after it, and
\* the call ends only by job timeout or by an error that propagates.
C21_UnknownStatusNotTerminal ==
    /\ (InWait /\ nprobes > 0 /\ wait.job.status \notin TerminalStatuses) =>
          /\ outcome.kind # "return"
          /\ pc = "w_check" => sleeps = nprobes
          /\ pc = "idle" =>
                /\ outcome.kind = "raise"
                /\ outcome.err \in {JobTimeoutError, CallbackRaised,
                                    AuthenticationError, BadRequestError,
                                    ApiRequestFailed, NetworkError}
                /\ outcome.err = JobTimeoutError => sleeps = nprobes
    /\ (InWait /\ nprobes > 0
          /\ (pc = "w_check" \/ (req.active /\ req.kind = "get_job"))) =>
          wait.job.status \notin TerminalStatuses

\* wait_for_job timed out after two probes, the last of which returned a
\* record whose status is outside JobStatus
C21_Witness ==
    /\ TimedOut
    /\ nprobes = 2
    /\ sleeps = 2
    /\ wait.job.status = "paused"

\* C22: wait_for_job and quick_run_docker never send a cancel request: the
\* requests of a wait_for_job call are get_job (GET) of the job waited for,
\* those of quick_run_docker are submit_job, get_job and get_job_result; and
\* the wait of quick_run_docker runs with the default deadline of 3600 s and
\* the default poll interval of 5 s and no callback, whatever timeout was
\* given for the job.
C22_WaitLeavesJobAlone ==
    /\ op.name \in {"wait_for_job", "quick_run_docker"} =>
          /\ \A i \in 1..Len(reqlog) :
                /\ reqlog[i].kind # "cancel_job"
                /\ op.name = "wait_for_job" => reqlog[i] = Logged("get_job", wait.job_id)
                /\ op.name = "quick_run_docker" =>
                      reqlog[i].kind \in {"submit_job", "get_job", "get_job_result"}
          /\ req.active =>
                /\ req.kind # "cancel_job"
                /\ req.kind = "get_job" =>
                      /\ req.method = "GET"
                      /\ req.id = wait.job_id
          /\ done.kind # "cancel_job"
    /\ (QuickWaiting /\ wait.job_id # NoValue) =>
          /\ wait.timeout = DefaultWaitTimeout
          /\ wait.poll_interval = DefaultPollInterval
          /\ ~wait.callback

\* quick_run_docker, given another timeout for the job than the default,
\* ended with job timeout after its wait had probed the job
C22_Witness ==
    /\ QuickWaiting
    /\ pc = "idle"
    /\ outcome.err = JobTimeoutError
    /\ op.job_timeout # DefaultJobTimeout
    /\ nprobes >= 1
    /\ Elapsed >= DefaultWaitTimeout

====
